---- MODULE Spec2Model ----
(***************************************************************************)
(* Application client of avail-light (src/src/app_client.rs): the driver   *)
(* loop `run`, the per-block pipeline `process_block`, the row             *)
(* reconstruction engine `reconstruct_rows_from_dht` and `fetch_verified`. *)
(*                                                                         *)
(* A chunk of CHUNK_SIZE bytes is one abstract value; a row is a sequence  *)
(* of chunks, so its byte length is Len(row) * CHUNK_SIZE.  Arrays indexed *)
(* by row index are functions on 0 .. n-1.                                 *)
(***************************************************************************)
EXTENDS Integers, Sequences, FiniteSets, TLC

\* ------------------------------------------------------------------ bounds
\* A block's original (non-extended) matrix has at most MaxCells cells:
\* rows * cols <= MaxCells.
MaxCells == 2
\* Number of verified blocks the channel delivers before it closes.
MaxBlocks == 2
\* The configured threshold ranges over 0 .. MaxThreshold.
MaxThreshold == 2

\* --------------------------------------------------------------- constants
CHUNK_SIZE == 32
EXTENSION_FACTOR == 2
\* columns_positions(dimensions, &unfetched, 0.66): the factor, as a percentage
COLUMN_FACTOR_PERCENT == 66

\* ------------------------------------------------------------ option/result
None == [some |-> FALSE, val |-> <<>>]
Some(x) == [some |-> TRUE, val |-> x]
Ok(x) == [ok |-> TRUE, val |-> x, err |-> ""]
Err(msg) == [ok |-> FALSE, val |-> <<>>, err |-> msg]

\* ------------------------------------------------------------------ helpers
Range(s) == {s[i] : i \in DOMAIN s}
Min(S) == CHOOSE x \in S : \A y \in S : x <= y
\* A Vec indexed from 0: a function on 0 .. n-1.
ArrLen(a) == Cardinality(DOMAIN a)
EmptyArr == [i \in {} |-> None]
Contains(s, x) == \E i \in DOMAIN s : s[i] = x
\* Vec::retain / Iterator::filter on a sequence, keeping order.
RECURSIVE Filter(_, _)
Filter(s, keep) ==
    IF s = <<>> THEN <<>>
    ELSE (IF Head(s) \in keep THEN <<Head(s)>> ELSE <<>>) \o Filter(Tail(s), keep)
RECURSIVE Flatten(_)
Flatten(ss) == IF ss = <<>> THEN <<>> ELSE Head(ss) \o Flatten(Tail(ss))
Reverse(s) == [i \in 1 .. Len(s) |-> s[Len(s) + 1 - i]]

\* --------------------------------------------------------------- data model
Position(r, c) == [row |-> r, col |-> c]
\* (row, col) compared lexicographically, as the tuple comparison of line 177
PosLess(p, q) == p.row < q.row \/ (p.row = q.row /\ p.col < q.col)
\* The chunk the block's commitments bind to position p, a chunk at p that
\* does not match them, and one whose proof is not even a curve point.
TrueChunk(p) == [row |-> p.row, col |-> p.col, good |-> TRUE, point |-> TRUE]
BadChunk(p) == [row |-> p.row, col |-> p.col, good |-> FALSE, point |-> TRUE]
MalformedChunk(p) == [row |-> p.row, col |-> p.col, good |-> FALSE, point |-> FALSE]
TrueRow(r, cols) == [i \in 1 .. cols |-> TrueChunk(Position(r, i - 1))]
BadRow(r, cols) == [i \in 1 .. cols |-> BadChunk(Position(r, i - 1))]
ByteLen(row_data) == Len(row_data) * CHUNK_SIZE

\* Dimensions of a block: rows (original), cols; Dimensions::extended_rows
extended_rows(b) == b.rows * EXTENSION_FACTOR
\* Lookup: the application's range of data cells [start, end), or no entry.
NoRange == [present |-> FALSE, start |-> 0, end |-> 0]
\* The ranges that start with a row of the original matrix and end with one.
AppRanges(r, c) ==
    {[present |-> TRUE, start |-> a * c, end |-> e * c] : a \in 0 .. r - 1, e \in 1 .. r}
Shapes == {d \in (1 .. MaxCells) \X (1 .. MaxCells) : d[1] * d[2] <= MaxCells}
\* BlockVerified::block_num: the numbers a message of the channel may carry;
\* the channel may deliver them in any order and any of them again.  The code
\* reads a number only to pass it on and to build the key of the store, so
\* two numbers tell a repeated number from a new one.
BlockNums == {1, 2}
\* The blocks the channel may deliver: an empty block (no columns) without
\* and with an entry of the application in its lookup index, and for every
\* shape a block without and blocks with data of the application, each under
\* any number.
Blocks ==
    UNION {{[num |-> n, rows |-> 1, cols |-> 0, range |-> NoRange],
            [num |-> n, rows |-> 1, cols |-> 0,
             range |-> [present |-> TRUE, start |-> 0, end |-> 1]]}
           \cup {[num |-> n, rows |-> d[1], cols |-> d[2], range |-> NoRange] : d \in Shapes}
           \cup UNION {{[num |-> n, rows |-> d[1], cols |-> d[2], range |-> g] :
                           g \in {x \in AppRanges(d[1], d[2]) : x.start < x.end}} :
                        d \in Shapes} :
           n \in BlockNums}
NoBlock == [num |-> 0, rows |-> 0, cols |-> 0, range |-> NoRange]
Configs == [disable_rpc : BOOLEAN, threshold : 0 .. MaxThreshold]

\* kate_recovery::com::app_specific_rows: the extended rows holding the
\* application's data cells (original row r is extended row r * EXTENSION_FACTOR).
app_specific_rows(b) ==
    IF ~b.range.present THEN <<>>
    ELSE LET first == b.range.start \div b.cols
             last == (b.range.end - 1) \div b.cols
         IN  [i \in 1 .. (last - first + 1) |-> (first + i - 1) * EXTENSION_FACTOR]

\* kate_recovery::commitments::verify_equality: (verified, missing) row indices.
\* A row verifies when its bytes are the ones the row's commitment binds.
verify_equality(b, rs) ==
    LET app_rows == app_specific_rows(b)
    IN  IF ArrLen(rs) # extended_rows(b) THEN <<<<>>, app_rows>>
        ELSE LET verifications ==
                     {r \in Range(app_rows) :
                         rs[r].some /\ rs[r].val = TrueRow(r, b.cols)}
             IN  <<Filter(app_rows, verifications),
                   Filter(app_rows, Range(app_rows) \ verifications)>>

\* The number of slots a row source may give its answer: the code checks
\* none.  One slot per extended row is what verify_equality and the zip of
\* line 267 take the answer to have; one per requested index is a shorter
\* answer, and so is any other.
RowLens(b) == 0 .. extended_rows(b)
\* Row responses of a source asked for the rows `req`: an array of any of
\* these lengths; the slot of a requested row holds None for a row not found,
\* else the bytes returned; the other slots, which no step reads, hold None.
RowResponses(b, req) ==
    UNION {{[r \in 0 .. n - 1 |->
               IF r \in req
               THEN CASE f[r] = "absent" -> None
                      [] f[r] = "valid" -> Some(TrueRow(r, b.cols))
                      [] OTHER -> Some(BadRow(r, b.cols))
               ELSE None] :
            f \in [{r \in req : r < n} -> {"absent", "valid", "invalid"}]} :
           n \in RowLens(b)}

\* ------------------------------------------------ cell and row conversions
\* new_data_cell
new_data_cell(row, col, data) == [position |-> Position(row, col), data |-> data]
\* data_cells_from_row: chunks_exact(CHUNK_SIZE), enumerated by column
data_cells_from_row(row, row_data) ==
    [i \in 1 .. Len(row_data) |-> new_data_cell(row, i - 1, row_data[i])]
\* data_cells_from_rows: the cells of the present rows, in row order
data_cells_from_rows(rs) ==
    Flatten([i \in 1 .. ArrLen(rs) |->
                IF rs[i - 1].some THEN data_cells_from_row(i - 1, rs[i - 1].val)
                ELSE <<>>])

\* ------------------------------------------------------- process_block steps
\* (the retain of line 250 left out)
RetainMissing_All(missing, dht_verified) == missing
\* line 250: missing_rows.retain(|row| !dht_verified_rows.contains(row))
RetainMissing(missing, dht_verified) ==
    Filter(missing, Range(missing) \ Range(dht_verified))

\* lines 259-262: the merged verified set
MergeVerified(dht_verified, rpc_verified) ==
    Range(dht_verified) \cup Range(rpc_verified)

\* lines 264-272: zip the two row arrays with 0 .. extended_rows, prefer the
\* row of the distributed-cache source, keep it only if its index is verified
SelectRows(dht, rpc, verified, ext_rows) ==
    LET n == Min({ArrLen(dht), ArrLen(rpc), ext_rows})
    IN  [i \in 0 .. n - 1 |->
            LET row == IF dht[i].some THEN dht[i] ELSE rpc[i]
            IN  IF row.some /\ i \in verified THEN row ELSE None]

\* (the comparison of line 282 taken as >=)
TooManyMissing_AtLeast(missing, cols, threshold) == Len(missing) * cols >= threshold
\* line 282: missing_rows.len() * dimensions.cols() > cfg.threshold
TooManyMissing(missing, cols, threshold) == Len(missing) * cols > threshold

\* ------------------------------------------ reconstruct_rows_from_dht steps
\* Dimensions::extended_rows_positions: every position of the given rows
extended_rows_positions(b, rws) ==
    Flatten([i \in 1 .. Len(rws) |->
                [c \in 1 .. b.cols |-> Position(rws[i], c - 1)]])
\* (the early return of lines 115-117 left out)
NoMissingCells_Never(b, missing) == FALSE
\* lines 113-117: no cell is missing, the call returns Ok(vec![]) at once
NoMissingCells(b, missing) == extended_rows_positions(b, missing) = <<>>
\* Positions ordered by (row, col)
RECURSIVE SortedPositions(_)
SortedPositions(S) ==
    IF S = {} THEN <<>>
    ELSE LET m == CHOOSE p \in S : \A q \in S : p = q \/ PosLess(p, q)
         IN  <<m>> \o SortedPositions(S \ {m})
\* kate_recovery::com::columns_positions(dimensions, positions, 0.66): the
\* number of cells asked of every needed column, at least the factor's share
\* of the column's extended_rows cells and no more than needed for that
column_cells(b) == (COLUMN_FACTOR_PERCENT * extended_rows(b) + 99) \div 100
columns_of(positions) == {positions[i].col : i \in DOMAIN positions}

\* What network_client.fetch_cells_from_dht and proof::verify may answer for a
\* request: fetched cells and unfetched positions in request order, and the
\* verified / unverified positions of the fetched cells (a cell verifies when
\* its content is the chunk the commitment binds), in the order the verifier
\* threads finish.
CellResponses(positions, kinds) ==
    {[st |-> f] : f \in [DOMAIN positions -> kinds]}
FetchedOf(positions, st) ==
    LET keep == {i \in DOMAIN positions : st[i] # "absent"}
        cell(i) == [position |-> positions[i],
                    data |-> CASE st[i] = "valid" -> TrueChunk(positions[i])
                               [] st[i] = "invalid" -> BadChunk(positions[i])
                               [] OTHER -> MalformedChunk(positions[i])]
        RECURSIVE walk(_)
        walk(i) == IF i > Len(positions) THEN <<>>
                   ELSE (IF i \in keep THEN <<cell(i)>> ELSE <<>>) \o walk(i + 1)
    IN  walk(1)
UnfetchedOf(positions, st) ==
    LET RECURSIVE walk(_)
        walk(i) == IF i > Len(positions) THEN <<>>
                   ELSE (IF st[i] = "absent" THEN <<positions[i]>> ELSE <<>>) \o walk(i + 1)
    IN  walk(1)
\* proof::verify: the positions of the cells, split by whether the proof holds
\* (fetch_verified reads the verified positions by membership only, so their
\* order is left as it is)
VerifiedOf(cells) ==
    LET RECURSIVE walk(_)
        walk(s) == IF s = <<>> THEN <<>>
                   ELSE (IF Head(s).data = TrueChunk(Head(s).position)
                         THEN <<Head(s).position>> ELSE <<>>) \o walk(Tail(s))
    IN  walk(cells)
UnverifiedOf(cells) ==
    LET RECURSIVE walk(_)
        walk(s) == IF s = <<>> THEN <<>>
                   ELSE (IF Head(s).data # TrueChunk(Head(s).position)
                         THEN <<Head(s).position>> ELSE <<>>) \o walk(Tail(s))
    IN  walk(cells)
\* proof::verify fails as a whole on a cell whose proof is no curve point
Malformed(cells) == \E i \in DOMAIN cells : ~cells[i].data.point
\* The orders in which the verifier's thread pool may report positions
ReportOrders(s) == {s, Reverse(s)}

\* fetch_verified, line 99: keep the fetched cells whose position verified
RetainVerified(fetched_cells, verified) ==
    LET RECURSIVE walk(_)
        walk(s) == IF s = <<>> THEN <<>>
                   ELSE (IF Contains(verified, Head(s).position)
                         THEN <<Head(s)>> ELSE <<>>) \o walk(Tail(s))
    IN  walk(fetched_cells)
\* (the append of line 100 left out)
fetch_verified_DropUnverified(fetched_cells, unfetched_pos, verified, unverified) ==
    <<RetainVerified(fetched_cells, verified), unfetched_pos>>
\* fetch_verified, lines 99-102: the verified cells, and the unfetched
\* positions with the unverified ones appended
fetch_verified(fetched_cells, unfetched_pos, verified, unverified) ==
    <<RetainVerified(fetched_cells, verified), unfetched_pos \o unverified>>

\* kate_recovery::com::reconstruct_columns: the de-extended column (one chunk
\* per original row) of every column that has a cell; a column with fewer
\* cells than original rows cannot be reconstructed.
reconstruct_columns(b, cells) ==
    LET columns == {cells[i].position.col : i \in DOMAIN cells}
        count(c) == Cardinality({cells[i].position : i \in {j \in DOMAIN cells :
                                                         cells[j].position.col = c}})
    IN  IF \E c \in columns : count(c) < b.rows
        THEN Err("Invalid column")
        ELSE Ok([c \in columns |->
                    [i \in 1 .. b.rows |->
                        TrueChunk(Position((i - 1) * EXTENSION_FACTOR, c))]])

\* (the row taken modulo EXTENSION_FACTOR, not divided by it)
data_cell_Modulo(position, reconstructed) ==
    IF position.col \in DOMAIN reconstructed
       /\ position.row % EXTENSION_FACTOR < Len(reconstructed[position.col])
    THEN Ok([position |-> position,
             data |-> reconstructed[position.col][(position.row % EXTENSION_FACTOR) + 1]])
    ELSE Err("Data cell not found")
\* (a chunk that is not there replaced by a filler, not reported)
data_cell_Filler(position, reconstructed) ==
    IF position.col \in DOMAIN reconstructed
       /\ position.row \div EXTENSION_FACTOR < Len(reconstructed[position.col])
    THEN Ok([position |-> position,
             data |-> reconstructed[position.col][(position.row \div EXTENSION_FACTOR) + 1]])
    ELSE Ok([position |-> position, data |-> BadChunk(position)])
\* data_cell, lines 70-81
data_cell(position, reconstructed) ==
    IF position.col \in DOMAIN reconstructed
       /\ position.row \div EXTENSION_FACTOR < Len(reconstructed[position.col])
    THEN Ok([position |-> position,
             data |-> reconstructed[position.col][(position.row \div EXTENSION_FACTOR) + 1]])
    ELSE Err("Data cell not found")

\* lines 161-164: collect::<Result<Vec<_>>>
reconstructed_cells_of(unfetched_pos, reconstructed) ==
    LET cs == [i \in DOMAIN unfetched_pos |-> data_cell(unfetched_pos[i], reconstructed)]
    IN  IF \E i \in DOMAIN cs : ~cs[i].ok
        THEN Err("Data cell not found")
        ELSE Ok([i \in DOMAIN cs |-> cs[i].val])

\* lines 161-164: the calls of data_cell made; collect stops at the first Err
data_cell_calls(unfetched_pos, reconstructed) ==
    LET failing == {i \in DOMAIN unfetched_pos :
                       ~data_cell(unfetched_pos[i], reconstructed).ok}
    IN  IF failing = {} THEN Len(unfetched_pos)
        ELSE CHOOSE i \in failing : \A j \in failing : i <= j

\* lines 176-177: the stable sort by (row, col)
RECURSIVE InsertCell(_, _)
InsertCell(sorted, x) ==
    IF sorted = <<>> THEN <<x>>
    ELSE IF PosLess(x.position, Head(sorted).position)
         THEN <<x>> \o sorted
         ELSE <<Head(sorted)>> \o InsertCell(Tail(sorted), x)
\* (the sort of lines 176-177 left out)
SortCells_AsArrived(s) == s
RECURSIVE SortCells(_)
SortCells(s) ==
    IF s = <<>> THEN <<>>
    ELSE InsertCell(SortCells(SubSeq(s, 1, Len(s) - 1)), s[Len(s)])

\* lines 182-186: the chunks of the cells of one row, in the cells' order
RowData(data_cells, row) ==
    LET RECURSIVE walk(_)
        walk(s) == IF s = <<>> THEN <<>>
                   ELSE (IF Head(s).position.row = row THEN <<Head(s).data>> ELSE <<>>)
                        \o walk(Tail(s))
    IN  walk(data_cells)
\* (the comparison of line 188 taken as "longer than")
RowSizeValid_NotLonger(data, cols) == ByteLen(data) <= cols * CHUNK_SIZE
\* line 188
RowSizeValid(data, cols) == ByteLen(data) = cols * CHUNK_SIZE
\* lines 179-194
assemble_rows(data_cells, missing, cols) ==
    LET rs == [i \in DOMAIN missing |-> <<missing[i], RowData(data_cells, missing[i])>>]
    IN  IF \E i \in DOMAIN rs : ~RowSizeValid(rs[i][2], cols)
        THEN Err("Row size is not valid after reconstruction")
        ELSE Ok(rs)

\* lines 307-310: rows[i] = Some(row); an index past the end panics
SpliceInBounds(rs, recon) == \A i \in DOMAIN recon : recon[i][1] \in DOMAIN rs
\* lines 307-310, every index in bounds
Splice(rs, recon) ==
    [i \in DOMAIN rs |->
        IF \E k \in DOMAIN recon : recon[k][1] = i
        THEN Some(recon[CHOOSE k \in DOMAIN recon :
                          recon[k][1] = i /\ \A j \in DOMAIN recon : recon[j][1] = i => j <= k][2])
        ELSE rs[i]]

\* kate_recovery::com::decode_app_extrinsics: the application's data cells, in
\* range order, taken from the extended positions of the original cells
AppPositions(b) ==
    IF ~b.range.present THEN <<>>
    ELSE [i \in 1 .. (b.range.end - b.range.start) |->
             LET k == b.range.start + i - 1
             IN  Position((k \div b.cols) * EXTENSION_FACTOR, k % b.cols)]
CellAt(data_cells, p) ==
    IF \E i \in DOMAIN data_cells : data_cells[i].position = p
    THEN Some(data_cells[CHOOSE i \in DOMAIN data_cells : data_cells[i].position = p].data)
    ELSE None
decode_app_extrinsics(b, data_cells) ==
    LET ps == AppPositions(b)
    IN  IF \E i \in DOMAIN ps : ~CellAt(data_cells, ps[i]).some
        THEN Err("Failed to decode app extrinsics")
        ELSE Ok([i \in DOMAIN ps |-> CellAt(data_cells, ps[i]).val])
\* The decode of the application's rows as the commitments bind them
TrueData(b) == [i \in DOMAIN AppPositions(b) |-> TrueChunk(AppPositions(b)[i])]

\* ------------------------------------------------------------ run's filter
\* (the lookup index not consulted)
SkipsBlock_EmptyOnly(b) == b.cols = 0
\* lines 356-373: a block is skipped when it has no columns or the lookup
\* index has no entry for the application
SkipsBlock(b) == b.cols = 0 \/ ~b.range.present

\* -------------------------------------------------------------------- state
VARIABLES
    cfg,            \* AppClientConfig: disable_rpc, threshold
    block_receive,  \* blocks the channel has still to deliver
    log,            \* run: the outcome logged for each dequeued block
    db,             \* the store: the block numbers that have an entry
    pc,             \* where run / process_block / reconstruct_rows_from_dht stand
    block,          \* the dequeued block
    pb,             \* the locals of process_block
    rr,             \* the locals of reconstruct_rows_from_dht
    result,         \* what process_block returned
    calls,          \* the external calls made for the dequeued block
    source          \* what the channel and the sources hold, where that is fixed

vars == <<cfg, block_receive, log, db, pc, block, pb, rr, result, calls, source>>

NoCalls == [rows_dht |-> 0, rpc |-> 0, recon |-> 0, cells |-> 0, verify |-> 0,
            columns |-> 0, data_cell |-> 0, decode |-> 0, store |-> 0]
Running == [ok |-> FALSE, val |-> <<>>, err |-> "running"]
NoMap == [c \in {} |-> <<>>]
\* process_block's locals before its first line, and after it has returned
NoPb == [dht_rows |-> EmptyArr, rpc_rows |-> EmptyArr,
         dht_verified_rows |-> <<>>, dht_missing_rows |-> <<>>,
         rpc_verified_rows |-> <<>>, missing_rows |-> <<>>,
         verified_rows |-> {}, rows |-> EmptyArr,
         recon |-> Running, data |-> <<>>]
\* reconstruct_rows_from_dht's locals outside a call
NoRr == [got |-> <<>>, absent |-> <<>>,    \* what fetch_cells_from_dht answered
         fetched |-> <<>>, unfetched |-> <<>>,
         reconstructed |-> NoMap, data_cells |-> <<>>]
\* line 351: let block_number = block.block_num
block_number == block.num
\* Nothing fixed: the channel delivers any block, the sources answer anything
NoSource == [block |-> NoBlock, dht |-> NoMap, rpc |-> NoMap, cells |-> {}]

Init ==
    /\ cfg \in Configs
    /\ source = NoSource
    /\ block_receive = MaxBlocks
    /\ log = <<>>
    /\ db = {}
    /\ pc = "recv"
    /\ block = NoBlock
    /\ pb = NoPb
    /\ rr = NoRr
    /\ result = Running
    /\ calls = NoCalls

\* (the error is recorded and the function carries on to its last step)
Fail_KeepGoing(msg) ==
    /\ result' = Err(msg)
    /\ pc' = "store"
    /\ pb' = pb
    /\ rr' = rr
\* process_block returns an error (a `?` of lines 229-320, or line 283); its
\* locals and those of reconstruct_rows_from_dht are dropped
Fail(msg) ==
    /\ result' = Err(msg)
    /\ pc' = "returned"
    /\ pb' = NoPb
    /\ rr' = NoRr

\* ---------------------------------------------------------------------- run
\* (the next block taken as soon as process_block has returned, before the
\* outcome of the block at hand is logged)
Receive_BeforeLogged ==
    /\ pc \in {"recv", "returned"}
    /\ block_receive > 0
    /\ \E b \in Blocks :
        /\ block_receive' = block_receive - 1
        /\ calls' = NoCalls
        /\ result' = Running
        /\ IF SkipsBlock(b)
           THEN /\ log' = Append(log, "skipped")
                /\ block' = NoBlock
                /\ pc' = "recv"
           ELSE /\ log' = log
                /\ block' = b
                /\ pc' = "fetch_rows"
    /\ UNCHANGED <<cfg, source, db, pb, rr>>
\* lines 350-373: the next block of the channel; skipped, or handed to
\* process_block
Receive ==
    /\ pc = "recv"
    /\ block_receive > 0
    /\ \E b \in Blocks :
        /\ block_receive' = block_receive - 1
        /\ calls' = NoCalls
        /\ result' = Running
        /\ IF SkipsBlock(b)
           THEN /\ log' = Append(log, "skipped")
                /\ block' = NoBlock
                /\ pc' = "recv"
           ELSE /\ log' = log
                /\ block' = b
                /\ pc' = "fetch_rows"
    /\ UNCHANGED <<cfg, source, db, pb, rr>>

\* line 350: the channel is closed and drained, the loop ends
Close ==
    /\ pc = "recv"
    /\ block_receive = 0
    /\ pc' = "stopped"
    /\ UNCHANGED <<cfg, source, block_receive, log, db, block, pb, rr, result, calls>>

\* lines 375-389: process_block has returned; log the outcome, next block
Logged ==
    /\ pc = "returned"
    /\ log' = Append(log, IF result.ok THEN "processed" ELSE "error")
    /\ block' = NoBlock
    /\ pc' = "recv"
    /\ UNCHANGED <<cfg, source, block_receive, db, pb, rr, result, calls>>

\* ------------------------------------------------------------ process_block
\* lines 213-229: the application's rows from the distributed-cache source,
\* and their verification, which fails on returned rows that are no scalars
FetchRowsDht ==
    /\ pc = "fetch_rows"
    /\ calls' = [calls EXCEPT !.rows_dht = @ + 1]
    /\ \/ \E resp \in RowResponses(block, Range(app_specific_rows(block))) :
            /\ pb' = [pb EXCEPT !.dht_rows = resp,
                                !.dht_verified_rows = verify_equality(block, resp)[1],
                                !.dht_missing_rows = verify_equality(block, resp)[2]]
            /\ pc' = "fetch_rpc"
            /\ UNCHANGED <<rr, result>>
       \/ /\ app_specific_rows(block) # <<>>
          /\ Fail("verify_equality")
    /\ UNCHANGED <<cfg, source, block_receive, log, db, block>>

\* lines 247-272: the verification of the fallback rows, the exclusion of the
\* rows the first verification accepted, the merged verified set and the
\* selection of the rows
FallbackVerified(rpc) ==
    LET rpc_verified == verify_equality(block, rpc)[1]
        verified == MergeVerified(pb.dht_verified_rows, rpc_verified)
    IN  /\ pb' = [pb EXCEPT !.rpc_rows = rpc,
                            !.rpc_verified_rows = rpc_verified,
                            !.missing_rows = RetainMissing(verify_equality(block, rpc)[2],
                                                           pb.dht_verified_rows),
                            !.verified_rows = verified,
                            !.rows = SelectRows(pb.dht_rows, rpc, verified,
                                                extended_rows(block))]
        /\ pc' = "guard"
        /\ UNCHANGED <<rr, result>>

\* (disable_rpc not consulted: the fallback source is asked in any case)
FetchRowsRpc_IgnoresFlag ==
    /\ pc = "fetch_rpc"
    /\ calls' = [calls EXCEPT !.rpc = @ + 1]
    /\ \/ \E resp \in RowResponses(block, Range(pb.dht_missing_rows)) :
            FallbackVerified(resp)
       \/ Fail("get_kate_rows")
    /\ UNCHANGED <<cfg, source, block_receive, log, db, block>>
\* lines 237-272: the rows still missing from the fallback source unless it is
\* disabled (the call may fail, and so may the verification of returned rows
\* that are no scalars), then the verification and the row selection
FetchRowsRpc ==
    /\ pc = "fetch_rpc"
    /\ IF cfg.disable_rpc
       THEN /\ FallbackVerified([i \in DOMAIN pb.dht_rows |-> None])
            /\ UNCHANGED calls
       ELSE /\ calls' = [calls EXCEPT !.rpc = @ + 1]
            /\ \/ \E resp \in RowResponses(block, Range(pb.dht_missing_rows)) :
                    FallbackVerified(resp)
               \/ Fail("get_kate_rows")
               \/ /\ pb.dht_missing_rows # <<>>
                  /\ Fail("verify_equality")
    /\ UNCHANGED <<cfg, source, block_receive, log, db, block>>

\* lines 282-299: the threshold guard, then the call of reconstruct_rows_from_dht
\* (lines 113-117: nothing to do for no missing cell).  The row arrays,
\* consumed by line 266, and the lists of the first verification, read for the
\* last time by line 259, are gone from here on.
Guard ==
    /\ pc = "guard"
    /\ IF TooManyMissing(pb.missing_rows, block.cols, cfg.threshold)
       THEN /\ Fail("Too many cells are missing")
            /\ UNCHANGED calls
       ELSE /\ calls' = [calls EXCEPT !.recon = @ + 1]
            /\ LET empty == NoMissingCells(block, pb.missing_rows)
               IN  /\ pb' = [pb EXCEPT !.dht_rows = EmptyArr, !.rpc_rows = EmptyArr,
                                       !.dht_verified_rows = <<>>,
                                       !.dht_missing_rows = <<>>,
                                       !.recon = IF empty THEN Ok(<<>>) ELSE Running]
                   /\ pc' = IF empty THEN "splice" ELSE "round1"
            /\ UNCHANGED <<rr, result>>
    /\ UNCHANGED <<cfg, source, block_receive, log, db, block>>

\* ------------------------------------------------- reconstruct_rows_from_dht
\* lines 113-132 and 91-93: the first round asks the distributed-cache source
\* for every cell of the missing rows
Round1Fetch ==
    /\ pc = "round1"
    /\ calls' = [calls EXCEPT !.cells = @ + 1]
    /\ \E resp \in CellResponses(extended_rows_positions(block, pb.missing_rows),
                                 {"absent", "valid", "invalid", "malformed"}) :
        LET positions == extended_rows_positions(block, pb.missing_rows)
        IN  rr' = [rr EXCEPT !.got = FetchedOf(positions, resp.st),
                             !.absent = UnfetchedOf(positions, resp.st)]
    /\ pc' = "verify1"
    /\ UNCHANGED <<cfg, source, block_receive, log, db, block, pb, result>>

\* (the first round asked again while a position is left unfetched)
Round1Verify_Retry ==
    /\ pc = "verify1"
    /\ calls' = [calls EXCEPT !.verify = @ + 1]
    /\ IF Malformed(rr.got)
       THEN Fail("Failed to verify fetched cells")
       ELSE \E unverified \in ReportOrders(UnverifiedOf(rr.got)) :
            LET out == fetch_verified(rr.got, rr.absent, VerifiedOf(rr.got), unverified)
            IN  /\ rr' = [rr EXCEPT !.got = <<>>, !.absent = <<>>,
                                    !.fetched = out[1], !.unfetched = out[2]]
                /\ pc' = IF out[2] # <<>> THEN "round1" ELSE "round2"
                /\ UNCHANGED <<pb, result>>
    /\ UNCHANGED <<cfg, source, block_receive, log, db, block>>
\* lines 95-102 and 132: the fetched cells are verified (which fails on a
\* cell whose proof is no curve point) and split
Round1Verify ==
    /\ pc = "verify1"
    /\ calls' = [calls EXCEPT !.verify = @ + 1]
    /\ IF Malformed(rr.got)
       THEN Fail("Failed to verify fetched cells")
       ELSE \E unverified \in ReportOrders(UnverifiedOf(rr.got)) :
            LET out == fetch_verified(rr.got, rr.absent, VerifiedOf(rr.got), unverified)
            IN  /\ rr' = [rr EXCEPT !.got = <<>>, !.absent = <<>>,
                                    !.fetched = out[1], !.unfetched = out[2]]
                /\ pc' = "round2"
                /\ UNCHANGED <<pb, result>>
    /\ UNCHANGED <<cfg, source, block_receive, log, db, block>>

\* line 152, once the second round has answered: reconstruct the columns
\* from the cells the round has verified
Reconstructed(missing_fetched) ==
    LET columns == reconstruct_columns(block, missing_fetched)
    IN  /\ calls' = [calls EXCEPT !.cells = @ + 1, !.verify = @ + 1, !.columns = @ + 1]
        /\ IF ~columns.ok
           THEN Fail(columns.err)
           ELSE /\ rr' = [rr EXCEPT !.reconstructed = columns.val]
                /\ pc' = "cells"
                /\ UNCHANGED <<pb, result>>

\* (the set not computed from the arguments alone: the last invocation of
\* process_block is given the last column_cells cells of every column)
columns_positions_Redrawn(b, positions) ==
    LET first == IF block_receive = 0 THEN extended_rows(b) - column_cells(b) ELSE 0
    IN  UNION {{Position(r, c) : r \in first .. first + column_cells(b) - 1} :
                  c \in columns_of(positions)}
\* columns_positions: for every column of `positions` the first column_cells
\* cells of the column; the set is computed from the arguments alone
columns_positions(b, positions) ==
    UNION {{Position(r, c) : r \in 0 .. column_cells(b) - 1} : c \in columns_of(positions)}

\* The positions that may come back verified from the second round: of every
\* column asked for, some of its column_cells cells.  Which rows they are is
\* immaterial to reconstruct_columns, which needs `rows` cells of a column
\* whatever their rows, so the k verified cells of a column are taken to be
\* its first k.
Round2Verified(b, unfetched_pos) ==
    {UNION {{Position(r, c) : r \in 0 .. k[c] - 1} : c \in columns_of(unfetched_pos)} :
        k \in [columns_of(unfetched_pos) -> 0 .. column_cells(b)]}

\* lines 140-152: the second round, over the cells columns_positions names
\* in the columns of the positions left unfetched, and the reconstruction of
\* the columns.  The positions the round leaves unfetched are dropped (line
\* 142), so only the cells that verify are told apart.  With nothing left
\* unfetched the request is empty and so is the answer.
Round2 ==
    /\ pc = "round2"
    /\ \/ \E valid \in Round2Verified(block, rr.unfetched) :
            LET got == FetchedOf(SortedPositions(valid),
                                 [i \in 1 .. Cardinality(valid) |-> "valid"])
            IN  Reconstructed(fetch_verified(got, <<>>, VerifiedOf(got),
                                             UnverifiedOf(got))[1])
       \/ /\ rr.unfetched # <<>>
          /\ Fail("Failed to verify fetched cells")
          /\ calls' = [calls EXCEPT !.cells = @ + 1, !.verify = @ + 1]
    /\ UNCHANGED <<cfg, source, block_receive, log, db, block>>

\* lines 161-177: one data cell for every position left unfetched, made from
\* the reconstructed columns (the first lookup that fails ends the call), the
\* fetched cells and these merged and sorted by (row, col)
DataCells ==
    /\ pc = "cells"
    /\ calls' = [calls EXCEPT !.data_cell = data_cell_calls(rr.unfetched, rr.reconstructed)]
    /\ LET cells == reconstructed_cells_of(rr.unfetched, rr.reconstructed)
       IN  IF ~cells.ok
           THEN Fail(cells.err)
           ELSE /\ rr' = [rr EXCEPT !.data_cells = SortCells(rr.fetched \o cells.val)]
                /\ pc' = "assemble"
                /\ UNCHANGED <<pb, result>>
    /\ UNCHANGED <<cfg, source, block_receive, log, db, block>>

\* lines 179-194: one (row, bytes) pair for every missing row; the call
\* returns to process_block (line 299)
Assemble ==
    /\ pc = "assemble"
    /\ LET assembled == assemble_rows(rr.data_cells, pb.missing_rows, block.cols)
       IN  IF assembled.ok
           THEN /\ pb' = [pb EXCEPT !.recon = assembled]
                /\ rr' = NoRr
                /\ pc' = "splice"
                /\ UNCHANGED result
           ELSE Fail(assembled.err)
    /\ UNCHANGED <<cfg, source, block_receive, log, db, block, calls>>

\* ------------------------------------------------- process_block, continued
\* lines 307-316: splice the reconstructed rows in, slice the rows into data
\* cells and decode the application's data (the decoder may reject bytes
\* that are not the committed ones)
SpliceDecode ==
    /\ pc = "splice"
    /\ IF ~SpliceInBounds(pb.rows, pb.recon.val)
       THEN /\ pc' = "panicked"
            /\ UNCHANGED <<pb, rr, result, calls>>
       ELSE /\ calls' = [calls EXCEPT !.decode = @ + 1]
            /\ LET spliced == Splice(pb.rows, pb.recon.val)
                   decoded == decode_app_extrinsics(block, data_cells_from_rows(spliced))
               IN  \E accepted \in BOOLEAN :
                    /\ accepted => decoded.ok
                    /\ ~accepted => (~decoded.ok \/ decoded.val # TrueData(block))
                    /\ IF accepted
                       THEN /\ pb' = [pb EXCEPT !.rows = spliced, !.data = decoded.val]
                            /\ pc' = "store"
                            /\ UNCHANGED <<rr, result>>
                       ELSE Fail("Failed to decode app extrinsics")
    /\ UNCHANGED <<cfg, source, block_receive, log, db, block>>

\* lines 318-325: store the decoded data under app_id:block_number, return
Store ==
    /\ pc = "store"
    /\ calls' = [calls EXCEPT !.store = @ + 1]
    /\ \E stored \in BOOLEAN :
        IF stored
        THEN /\ db' = db \cup {block_number}
             /\ result' = Ok(pb.data)
             /\ pc' = "returned"
             /\ pb' = NoPb
             /\ rr' = NoRr
        ELSE /\ Fail("Failed to store data into database")
             /\ UNCHANGED db
    /\ UNCHANGED <<cfg, source, block_receive, log, block>>

Next ==
    \/ Receive
    \/ Close
    \/ Logged
    \/ FetchRowsDht
    \/ FetchRowsRpc
    \/ Guard
    \/ Round1Fetch
    \/ Round1Verify
    \/ Round2
    \/ DataCells
    \/ Assemble
    \/ SpliceDecode
    \/ Store

Spec == Init /\ [][Next]_vars

\* ------------------------- the steps of reconstruct_rows_from_dht, on their own
\* What the first round may leave of the positions of the missing rows: each
\* one fetched and verified, or left unfetched (in any order), or, for the
\* kinds "neither" and "both", should fetch_cells_from_dht not split its
\* request, neither or both.
RoundStates(b, missing, kinds) ==
    LET positions == extended_rows_positions(b, missing)
        picked(st, ks) == {positions[i] : i \in {j \in DOMAIN positions : st[j] \in ks}}
        fetched(st) == FetchedOf(positions,
                                 [i \in DOMAIN positions |->
                                     IF st[i] \in {"fetched", "both"} THEN "valid" ELSE "absent"])
        orders(P) == {[i \in 1 .. Cardinality(P) |-> SortedPositions(P)[f[i]]] :
                         f \in Permutations(1 .. Cardinality(P))}
    IN  UNION {{[fetched |-> fetched(st), unfetched |-> u] :
                   u \in orders(picked(st, {"unfetched", "both"}))} :
               st \in [DOMAIN positions -> kinds]}
\* The columns reconstruct_columns returns for cells of the columns `columns`
TrueColumns(b, columns) ==
    [c \in columns |-> [i \in 1 .. b.rows |-> TrueChunk(Position((i - 1) * EXTENSION_FACTOR, c))]]
\* Any Reconstructed Column Map: some of the block's columns, each with the
\* first chunks of the de-extended column, as many as the original rows or
\* fewer
ColumnMaps(b) ==
    UNION {{[c \in C |-> [i \in 1 .. n[c] |->
                             TrueChunk(Position((i - 1) * EXTENSION_FACTOR, c))]] :
               n \in [C -> 0 .. b.rows]} :
           C \in SUBSET (0 .. b.cols - 1)}

\* process_block on the first block of the channel, inside its call of
\* reconstruct_rows_from_dht, at the place `at`: some rows of the application
\* verified (from the fallback source if it is enabled, where the selected
\* row may be the copy that did not verify), the others missing; the selected
\* array has the slots of the shorter of the two answers, all of them once a
\* row has verified from each source that was asked
FirstBlockRebuilding(at) ==
    /\ source = NoSource
    /\ block_receive = MaxBlocks - 1
    /\ log = <<>>
    /\ db = {}
    /\ pc = at
    /\ block \in {b \in Blocks : ~SkipsBlock(b)}
    /\ result = Running
    /\ \E M \in SUBSET Range(app_specific_rows(block)) :
          LET missing == Filter(app_specific_rows(block), M)
              verified == Range(app_specific_rows(block)) \ M
          IN  /\ M # {}
              /\ cfg \in {c \in Configs : ~TooManyMissing(missing, block.cols, c.threshold)}
              /\ \E from_rpc \in SUBSET verified, unverified_copy \in SUBSET verified,
                    n \in RowLens(block) :
                    /\ cfg.disable_rpc => from_rpc = {}
                    /\ unverified_copy \subseteq from_rpc
                    /\ (verified # from_rpc /\ (cfg.disable_rpc \/ from_rpc # {}))
                          => n = extended_rows(block)
                    /\ pb = [NoPb EXCEPT
                                !.missing_rows = missing,
                                !.rpc_verified_rows = Filter(app_specific_rows(block), from_rpc),
                                !.verified_rows = verified,
                                !.rows = [i \in 0 .. n - 1 |->
                                             IF i \in unverified_copy
                                             THEN Some(BadRow(i, block.cols))
                                             ELSE IF i \in verified
                                             THEN Some(TrueRow(i, block.cols))
                                             ELSE None]]

\* at line 161: the first round has split the positions of the missing rows
\* into fetched and unfetched, reconstruct_columns has returned any map
InitCells ==
    /\ FirstBlockRebuilding("cells")
    /\ \E st \in RoundStates(block, pb.missing_rows, {"fetched", "unfetched"}) :
          /\ rr \in {[NoRr EXCEPT !.fetched = st.fetched,
                                  !.unfetched = st.unfetched,
                                  !.reconstructed = columns] :
                        columns \in ColumnMaps(block)}
          /\ calls = [NoCalls EXCEPT
                         !.rows_dht = 1,
                         !.rpc = IF cfg.disable_rpc THEN 0 ELSE 1,
                         !.recon = 1, !.cells = 2, !.verify = 2, !.columns = 1]

NextCells == DataCells

SpecCells == InitCells /\ [][NextCells]_vars

\* at line 179: the cells of the missing rows, whatever the first round has
\* left of their positions, merged and sorted
InitAssemble ==
    /\ FirstBlockRebuilding("assemble")
    /\ \E st \in RoundStates(block, pb.missing_rows,
                             {"fetched", "unfetched", "neither", "both"}) :
          LET columns == TrueColumns(block, columns_of(st.unfetched))
          IN  /\ rr = [NoRr EXCEPT
                          !.fetched = st.fetched,
                          !.unfetched = st.unfetched,
                          !.reconstructed = columns,
                          !.data_cells =
                              SortCells(st.fetched
                                        \o reconstructed_cells_of(st.unfetched,
                                                                  columns).val)]
              /\ calls = [NoCalls EXCEPT
                             !.rows_dht = 1,
                             !.rpc = IF cfg.disable_rpc THEN 0 ELSE 1,
                             !.recon = 1, !.cells = 2, !.verify = 2,
                             !.columns = 1,
                             !.data_cell = data_cell_calls(st.unfetched, columns)]

NextAssemble == Assemble

SpecAssemble == InitAssemble /\ [][NextAssemble]_vars

\* ------------------------------- the same block, over sources that are fixed
\* What the sources hold of a block: for every row of the application what
\* the distributed-cache source answers, whether the fallback source has the
\* rows (all of them, valid, or none), and the extended rows whose cells the
\* distributed-cache source holds (with proofs that verify), a run of
\* consecutive rows.  The answers of the two row sources have one slot per
\* extended row, or one per requested index; of an answer of the second kind
\* no step reads a row (verify_equality verifies none), so its rows are just
\* all there or all absent.
Sources ==
    UNION {[block : {b},
            dht : [Range(app_specific_rows(b)) -> {"absent", "valid", "invalid"}],
            rpc : [Range(app_specific_rows(b)) -> {"absent"}]
                      \cup [Range(app_specific_rows(b)) -> {"valid"}],
            per_request : {FALSE},
            cells : {{Position(r, c) : r \in lo .. hi, c \in 0 .. b.cols - 1} :
                        lo \in 0 .. extended_rows(b), hi \in 0 .. extended_rows(b) - 1}]
           \cup
           [block : {b},
            dht : [Range(app_specific_rows(b)) -> {"absent"}]
                      \cup [Range(app_specific_rows(b)) -> {"valid"}],
            rpc : [Range(app_specific_rows(b)) -> {"absent"}],
            per_request : {TRUE},
            cells : {{Position(r, c) : r \in lo .. hi, c \in 0 .. b.cols - 1} :
                        lo \in 0 .. extended_rows(b), hi \in 0 .. extended_rows(b) - 1}] :
           b \in {x \in Blocks : ~SkipsBlock(x)}}
\* The answer of a row source that holds `held`, asked for the rows `req`
RowsHeld(per_request, b, req, held) ==
    [r \in 0 .. (IF per_request THEN Cardinality(req) ELSE extended_rows(b)) - 1 |->
        IF r \in req
        THEN CASE held[r] = "absent" -> None
               [] held[r] = "valid" -> Some(TrueRow(r, b.cols))
               [] OTHER -> Some(BadRow(r, b.cols))
        ELSE None]
\* The answer of the distributed-cache source that holds the cells `held`
CellsHeld(positions, held) ==
    [i \in DOMAIN positions |-> IF positions[i] \in held THEN "valid" ELSE "absent"]

InitTwice ==
    /\ cfg \in Configs
    /\ source \in Sources
    \* what a disabled fallback source holds is never read
    /\ cfg.disable_rpc => \A r \in DOMAIN source.rpc : source.rpc[r] = "absent"
    \* process_block is invoked two times
    /\ block_receive = 2
    /\ log = <<>>
    /\ db = {}
    /\ pc = "recv"
    /\ block = NoBlock
    /\ pb = NoPb
    /\ rr = NoRr
    /\ result = Running
    /\ calls = NoCalls

\* The channel delivers the block of `source`, every time
ReceiveHeld == Receive /\ block' = source.block
\* lines 375-389, where what the invocation returned and what the store then
\* holds are kept for the comparison of the invocations
LoggedHeld ==
    /\ pc = "returned"
    /\ log' = Append(log, [returned |-> result, persisted |-> db])
    /\ block' = NoBlock
    /\ pc' = "recv"
    /\ UNCHANGED <<cfg, source, block_receive, db, pb, rr, result, calls>>
\* lines 221-229 over the rows the distributed-cache source holds
FetchRowsDhtHeld ==
    /\ FetchRowsDht
    /\ pc' = "fetch_rpc"
    /\ pb'.dht_rows = RowsHeld(source.per_request, block, Range(app_specific_rows(block)),
                               source.dht)
\* lines 237-272 over the rows the fallback source holds
FetchRowsRpcHeld ==
    /\ FetchRowsRpc
    /\ pc' = "guard"
    /\ cfg.disable_rpc
          \/ pb'.rpc_rows = RowsHeld(source.per_request, block, Range(pb.dht_missing_rows),
                                     source.rpc)
\* lines 124-132 over the cells the distributed-cache source holds
Round1FetchHeld ==
    /\ Round1Fetch
    /\ LET positions == extended_rows_positions(block, pb.missing_rows)
       IN  rr'.got = FetchedOf(positions, CellsHeld(positions, source.cells))
\* lines 140-152: the second round asks for the positions columns_positions
\* has computed, the source answers with the cells it holds of them
Round2Held ==
    /\ pc = "round2"
    /\ LET positions == SortedPositions(columns_positions(block, rr.unfetched))
           st == CellsHeld(positions, source.cells)
           got == FetchedOf(positions, st)
       IN  Reconstructed(fetch_verified(got, UnfetchedOf(positions, st),
                                        VerifiedOf(got), UnverifiedOf(got))[1])
    /\ UNCHANGED <<cfg, source, block_receive, log, db, block>>
\* lines 307-316 with a decoder that takes every complete set of cells
SpliceDecodeHeld ==
    /\ SpliceDecode
    /\ pc' = "store" <=>
          /\ SpliceInBounds(pb.rows, pb.recon.val)
          /\ decode_app_extrinsics(block,
                 data_cells_from_rows(Splice(pb.rows, pb.recon.val))).ok
\* lines 318-325 with a store that takes every write
StoreHeld == Store /\ result'.ok

NextTwice ==
    \/ ReceiveHeld
    \/ Close
    \/ LoggedHeld
    \/ FetchRowsDhtHeld
    \/ FetchRowsRpcHeld
    \/ Guard
    \/ Round1FetchHeld
    \/ Round1Verify
    \/ Round2Held
    \/ DataCells
    \/ Assemble
    \/ SpliceDecodeHeld
    \/ StoreHeld

SpecTwice == InitTwice /\ [][NextTwice]_vars

\* ------------------------------------------------------------------- claims
\* C1: after the row selection of process_block, a row index of the extended
\* matrix has a row in the selected array if and only if it is in the union of
\* the rows verified from the distributed-cache source and the rows verified
\* from the fallback source; a row verified by neither is None even when bytes
\* were retrieved for it.
C1_VerifiedSetSelection ==
    pc = "guard" =>
        /\ \A i \in 0 .. extended_rows(block) - 1 :
              (i \in DOMAIN pb.rows /\ pb.rows[i].some) <=>
                  i \in Range(pb.dht_verified_rows) \cup Range(pb.rpc_verified_rows)
        /\ \A i \in DOMAIN pb.rows :
              i \notin Range(pb.dht_verified_rows) \cup Range(pb.rpc_verified_rows)
                  => pb.rows[i] = None

\* C2: the store is written at most once per block, as the last step, after
\* the row fetches, the threshold guard, the reconstruction and the decoding
\* have succeeded; a process_block that returns an error before that step has
\* made no call of the store, one that returns Ok has made one and the
\* block's number is a key of the store, and the store has an entry only once
\* a block was processed successfully.
C2_NoPartialPersistence ==
    /\ calls.store <= 1
    /\ pc = "store" =>
          /\ calls.store = 0 /\ calls.rows_dht = 1 /\ calls.recon = 1 /\ calls.decode = 1
          /\ pb.recon.ok
          /\ Len(pb.missing_rows) * block.cols <= cfg.threshold
    /\ calls.store = 1 =>
          /\ calls.decode = 1
          /\ result.ok \/ result.err = "Failed to store data into database"
    /\ (pc = "returned" /\ ~result.ok) =>
          (calls.store = 0 \/ result.err = "Failed to store data into database")
    /\ (pc = "returned" /\ result.ok) => (calls.store = 1 /\ block_number \in db)
    /\ db # {} =>
          \/ \E k \in DOMAIN log : log[k] = "processed"
          \/ pc = "returned" /\ result.ok
\* a block fails after its reconstruction was started, an earlier one is stored
C2_Witness ==
    /\ pc = "returned" /\ ~result.ok
    /\ calls.recon = 1 /\ calls.store = 0
    /\ db # {} /\ block_number \notin db
    /\ "processed" \in Range(log)

\* C3: at the threshold guard, if len(missing_rows) * cols exceeds the
\* threshold, process_block returns "Too many cells are missing" without
\* calling the reconstruction, fetching a cell, reconstructing a column or
\* writing the store; otherwise the guard lets the block go on to the
\* reconstruction call.
C3_ThresholdGuard ==
    [][pc = "guard" =>
         IF Len(pb.missing_rows) * block.cols > cfg.threshold
         THEN /\ pc' = "returned"
              /\ result' = Err("Too many cells are missing")
              /\ calls'.recon = 0 /\ calls'.cells = 0 /\ calls'.verify = 0
              /\ calls'.columns = 0 /\ calls'.store = 0
              /\ db' = db
         ELSE /\ pc' \in {"round1", "splice"}
              /\ calls'.recon = 1
              /\ result' = Running]_vars
\* the guard has aborted a block whose rows both sources were asked for
C3_Witness ==
    /\ pc = "returned"
    /\ result = Err("Too many cells are missing")
    /\ calls.rpc = 1 /\ calls.cells = 0

\* C4: after the fallback verification, missing_rows holds no row index that
\* is in dht_verified_rows, with the fallback source enabled or disabled.
C4_MissingExcludesDhtVerified ==
    pc = "guard" => Range(pb.missing_rows) \cap Range(pb.dht_verified_rows) = {}
\* the fallback source was asked, a row verified at first and a row is missing
C4_Witness ==
    /\ pc = "guard"
    /\ ~cfg.disable_rpc
    /\ pb.dht_verified_rows # <<>>
    /\ pb.missing_rows # <<>>

\* C5: an error of process_block does not end run: every dequeued block gets
\* exactly one log entry (skipped, processed or error), the loop stops only
\* once the channel is drained and every block was handled; whatever
\* process_block returned, run can log it, and then take the next block or
\* see the channel closed; process_block does not panic at the splice.
C5_FailureNeverHalts ==
    /\ block_receive + Len(log) + (IF pc \in {"recv", "stopped"} THEN 0 ELSE 1) = MaxBlocks
    /\ pc = "stopped" => (block_receive = 0 /\ Len(log) = MaxBlocks)
    /\ pc = "returned" => ENABLED Logged
    /\ pc = "recv" => ENABLED (Receive \/ Close)
    /\ pc # "panicked"
\* C6: every row reconstruct_rows_from_dht returns holds the bytes the row
\* has when it is retrieved directly and verifies, it is spliced in at its own
\* index, and with the fallback source disabled the row array passed to the
\* decoder holds at every row index of the application the directly retrieved
\* row and no row elsewhere, and the decoded data are those of the directly
\* retrieved rows.
C6_ReconstructedEqualsDirect ==
    LET direct == [i \in 0 .. extended_rows(block) - 1 |->
                      IF i \in Range(app_specific_rows(block))
                      THEN Some(TrueRow(i, block.cols)) ELSE None]
    IN  /\ pc = "splice" =>
              \A k \in DOMAIN pb.recon.val :
                  pb.recon.val[k][2] = TrueRow(pb.recon.val[k][1], block.cols)
        /\ pc = "store" =>
              \A r \in Range(pb.missing_rows) :
                  r \in DOMAIN pb.rows /\ pb.rows[r] = Some(TrueRow(r, block.cols))
        /\ (pc = "store" /\ cfg.disable_rpc) =>
              /\ \A r \in Range(app_specific_rows(block)) : r \in DOMAIN pb.rows
              /\ \A i \in DOMAIN pb.rows : pb.rows[i] = direct[i]
              /\ pb.data = decode_app_extrinsics(block, data_cells_from_rows(direct)).val
\* fallback disabled, one row verified from the first source, another one
\* rebuilt with cells made from reconstructed columns, and the data decoded
C6_Witness ==
    /\ pc = "store"
    /\ cfg.disable_rpc
    /\ pb.missing_rows # <<>>
    /\ calls.data_cell > 0
    /\ Range(app_specific_rows(block)) \ Range(pb.missing_rows) # {}

\* C7 as stated: with the fallback source enabled and every row missing after
\* the first verification returned by the fallback source and verified, no
\* reconstruction takes place (no cell is fetched or verified, no column is
\* reconstructed, no data cell made), and the block is decoded and persisted
\* from the rows of the two sources: the decoder is given the rows and returns
\* the data the commitments bind, which goes to the store under the block's
\* number.
C7_FallbackCoversAll ==
    /\ []((pc \in {"splice", "store"} /\ ~cfg.disable_rpc /\ pb.missing_rows = <<>>) =>
             /\ calls.rpc = 1
             /\ calls.cells = 0 /\ calls.verify = 0 /\ calls.columns = 0
             /\ calls.data_cell = 0
             /\ pb.recon = Ok(<<>>))
    /\ [][(~cfg.disable_rpc /\ pb.missing_rows = <<>>) =>
             /\ pc = "splice" =>
                   /\ pc' = "store"
                   /\ calls'.decode = 1
                   /\ pb'.data = TrueData(block)
             /\ (pc = "store" /\ result'.ok) =>
                   /\ result' = Ok(TrueData(block))
                   /\ block_number \in db']_vars

\* C8: reconstruct_rows_from_dht called with no missing row returns the
\* empty result at once: it never fetches or verifies a cell and reconstructs
\* no column.
C8_EmptyMissingFastPath ==
    (pb.missing_rows = <<>> /\ calls.recon = 1
       /\ pc \in {"round1", "verify1", "round2", "cells", "assemble", "splice"}) =>
        /\ pc = "splice"
        /\ pb.recon = Ok(<<>>)
        /\ rr = NoRr
        /\ calls.cells = 0 /\ calls.verify = 0 /\ calls.columns = 0
\* the call has returned for an empty list, the fallback source being disabled
C8_Witness ==
    /\ pc = "splice"
    /\ cfg.disable_rpc
    /\ pb.missing_rows = <<>>
    /\ calls.recon = 1 /\ calls.cells = 0

\* C9: reconstruct_rows_from_dht returns its rows only if the cells of every
\* missing row make up exactly cols * CHUNK_SIZE bytes, and then every pair
\* it returns has that length; if the cells of a row make up fewer or more
\* bytes it returns "Row size is not valid after reconstruction" and no row.
C9_RowSize ==
    [][pc = "assemble" =>
         LET cells_of(r) == {i \in DOMAIN rr.data_cells : rr.data_cells[i].position.row = r}
         IN  IF \A r \in Range(pb.missing_rows) : Cardinality(cells_of(r)) = block.cols
             THEN /\ pc' = "splice"
                  /\ pb'.recon.ok
                  /\ Len(pb'.recon.val) = Len(pb.missing_rows)
                  /\ \A k \in DOMAIN pb'.recon.val :
                        /\ pb'.recon.val[k][1] = pb.missing_rows[k]
                        /\ ByteLen(pb'.recon.val[k][2]) = block.cols * CHUNK_SIZE
             ELSE /\ pc' = "returned"
                  /\ result' = Err("Row size is not valid after reconstruction")
                  /\ pb'.recon.val = <<>>]_vars
\* the call has failed on a row of the wrong size
C9_Witness ==
    /\ pc = "returned"
    /\ result = Err("Row size is not valid after reconstruction")
    /\ calls.columns = 1

\* C10: when fetch_verified returns, the cells it returns are exactly the
\* fetched cells whose proof verifies, the positions it returns are exactly
\* the requested positions the source did not return and those whose cell
\* failed verification, the two are disjoint and cover the request; the call
\* fails only when the verification itself cannot be carried out.
C10_FetchVerifiedPartition ==
    [][pc = "verify1" =>
         LET requested == Range(extended_rows_positions(block, pb.missing_rows))
             returned == {rr.got[i].position : i \in DOMAIN rr.got}
             passing == {i \in DOMAIN rr.got : rr.got[i].data.good}
             failing == {rr.got[i].position : i \in DOMAIN rr.got \ passing}
             cells_out == Range(rr'.fetched)
             positions_out == {c.position : c \in cells_out}
         IN  IF \E i \in DOMAIN rr.got : ~rr.got[i].data.point
             THEN pc' = "returned" /\ result' = Err("Failed to verify fetched cells")
             ELSE /\ pc' = "round2"
                  /\ result' = Running
                  /\ cells_out = {rr.got[i] : i \in passing}
                  /\ Len(rr'.fetched) = Cardinality(passing)
                  /\ Range(rr'.unfetched) = (requested \ returned) \cup failing
                  /\ positions_out \cap Range(rr'.unfetched) = {}
                  /\ positions_out \cup Range(rr'.unfetched) = requested]_vars
\* the call has returned verified cells and positions still missing
C10_Witness ==
    /\ pc = "round2"
    /\ rr.fetched # <<>>
    /\ rr.unfetched # <<>>
    /\ calls.verify = 1

\* C11: with the fallback source disabled process_block never calls it, its
\* row array is None at every index (and as long as the first source's), no
\* row is verified from it, and missing_rows is exactly the rows of the
\* application that the first source did not verify.
C11_DisabledFallback ==
    cfg.disable_rpc =>
        /\ calls.rpc = 0
        /\ pc = "guard" =>
              /\ DOMAIN pb.rpc_rows = DOMAIN pb.dht_rows
              /\ \A i \in DOMAIN pb.rpc_rows : ~pb.rpc_rows[i].some
              /\ pb.rpc_verified_rows = <<>>
              /\ Range(pb.missing_rows) =
                     Range(app_specific_rows(block)) \ Range(pb.dht_verified_rows)
              /\ pb.missing_rows = pb.dht_missing_rows
\* fallback disabled, one row verified from the first source and one not
C11_Witness ==
    /\ pc = "guard"
    /\ cfg.disable_rpc
    /\ pb.dht_verified_rows # <<>>
    /\ pb.missing_rows # <<>>
    /\ \E i \in DOMAIN pb.dht_rows : pb.dht_rows[i].some /\ i \in Range(pb.missing_rows)

C13_SelectedBytesVerified ==
    pc = "guard" =>
        \A i \in DOMAIN pb.rows :
            /\ pb.rows[i].some => pb.rows[i].val = TrueRow(i, block.cols)
            /\ (pb.dht_rows[i].some /\ i \notin Range(pb.dht_verified_rows)
                   /\ i \in Range(pb.rpc_verified_rows)) => pb.rows[i] = pb.rpc_rows[i]

\* C14: the selected row array is as long as the shortest of the two row
\* arrays and the extended row count; every row index the reconstruction
\* returns is an index of that array, so the splice does not panic, and after
\* the splice every reconstructed row sits at its own row index.
C14_SpliceInBounds ==
    /\ pc = "guard" =>
          ArrLen(pb.rows) = Min({ArrLen(pb.dht_rows), ArrLen(pb.rpc_rows),
                                 extended_rows(block)})
    /\ pc = "splice" =>
          /\ SpliceInBounds(pb.rows, pb.recon.val)
          /\ LET spliced == Splice(pb.rows, pb.recon.val)
             IN  /\ DOMAIN spliced = DOMAIN pb.rows
                 /\ \A k \in DOMAIN pb.recon.val :
                       spliced[pb.recon.val[k][1]] = Some(pb.recon.val[k][2])
                 /\ \A i \in DOMAIN pb.rows :
                       i \notin Range(pb.missing_rows) => spliced[i] = pb.rows[i]
    /\ pc # "panicked"
    /\ pc = "store" =>
          \A k \in DOMAIN pb.recon.val :
              /\ pb.recon.val[k][1] \in DOMAIN pb.rows
              /\ pb.rows[pb.recon.val[k][1]] = Some(pb.recon.val[k][2])
\* C15: the rows still missing after the two verifications and the merged
\* verified set are disjoint and together exactly the rows of the application;
\* when process_block comes to the decoding, the reconstruction has returned
\* one row for every missing row, and the row array handed to the decoder has
\* a row at every row index of the application, verified from one of the two
\* sources or reconstructed.
C15_CompleteOnSuccess ==
    LET app_rows == Range(app_specific_rows(block))
        reconstructed == {pb.recon.val[k][1] : k \in DOMAIN pb.recon.val}
    IN  /\ pc = "guard" =>
              /\ Range(pb.missing_rows) \cap pb.verified_rows = {}
              /\ Range(pb.missing_rows) \cup pb.verified_rows = app_rows
        /\ pc = "splice" =>
              /\ pb.recon.ok
              /\ reconstructed = Range(pb.missing_rows)
              /\ Range(pb.missing_rows) \cup pb.verified_rows = app_rows
              /\ \A r \in app_rows :
                    /\ r \in DOMAIN pb.rows
                    /\ Splice(pb.rows, pb.recon.val)[r].some
                    /\ r \in pb.verified_rows => pb.rows[r].some
        /\ pc = "store" =>
              \A r \in app_rows :
                  /\ r \in DOMAIN pb.rows
                  /\ pb.rows[r].some
                  /\ r \in pb.verified_rows \/ r \in reconstructed
\* C16: within one process_block every external call is made at most once,
\* the cell source at most twice, in the order: rows of the distributed-cache
\* source, fallback source, first cell round (only past the threshold guard
\* and with a row missing), second cell round over columns of the positions
\* the first round left unfetched, column reconstruction, decoding, store.
C16_CallOrder ==
    /\ calls.rows_dht <= 1 /\ calls.rpc <= 1 /\ calls.recon <= 1
    /\ calls.cells <= 2 /\ calls.verify <= 2 /\ calls.columns <= 1
    /\ calls.decode <= 1 /\ calls.store <= 1
    /\ calls.rpc = 1 => calls.rows_dht = 1
    /\ calls.recon = 1 => (calls.rows_dht = 1 /\ (cfg.disable_rpc \/ calls.rpc = 1))
    /\ calls.cells >= 1 => calls.recon = 1
    /\ calls.verify <= calls.cells /\ calls.cells <= calls.verify + 1
    /\ calls.columns = 1 => (calls.cells = 2 /\ calls.verify = 2)
    /\ calls.decode = 1 => (calls.recon = 1 /\ calls.columns = calls.cells \div 2)
    /\ calls.store = 1 => calls.decode = 1
    /\ pc \in {"fetch_rpc", "guard"} => (calls.recon = 0 /\ calls.cells = 0)
    /\ pc \in {"round1", "verify1", "round2", "cells", "assemble"} =>
          /\ pb.missing_rows # <<>>
          /\ ~TooManyMissing(pb.missing_rows, block.cols, cfg.threshold)
          /\ calls.decode = 0 /\ calls.store = 0
    /\ pc = "round1" => calls.cells = 0
    /\ pc = "round2" => (calls.cells = 1 /\ calls.columns = 0)
    /\ pc \in {"cells", "assemble"} =>
          /\ calls.cells = 2 /\ calls.columns = 1
          /\ DOMAIN rr.reconstructed \subseteq columns_of(rr.unfetched)
    /\ pc = "splice" => calls.decode = 0
    /\ pc = "store" => (calls.decode = 1 /\ calls.store = 0)
\* a block stored after both sources were asked for rows and the cell source
\* twice for cells
C16_Witness ==
    /\ pc = "returned" /\ result.ok
    /\ calls.rows_dht = 1 /\ calls.rpc = 1 /\ calls.cells = 2 /\ calls.columns = 1
    /\ calls.decode = 1 /\ calls.store = 1

\* C17: run handles the blocks one at a time, in the order of the channel: a
\* block is taken from the channel only when no block is in processing (the
\* previous one was skipped, or process_block has returned and the outcome is
\* logged), process_block starts on a block only in the step that takes it,
\* and the k-th block taken gets the k-th log entry.
C17_Sequential ==
    [][/\ block # NoBlock <=> pc \notin {"recv", "stopped"}
       /\ block_receive' # block_receive =>
             /\ pc = "recv" /\ block = NoBlock /\ pb = NoPb /\ rr = NoRr
             /\ block_receive' = block_receive - 1
             /\ Len(log) = MaxBlocks - block_receive
             /\ Len(log') = IF block' = NoBlock THEN Len(log) + 1 ELSE Len(log)
       /\ pc' = "fetch_rows" => block_receive' = block_receive - 1
       /\ block' # block => (block = NoBlock \/ block' = NoBlock)
       /\ (block # NoBlock /\ block' = NoBlock) =>
             (pc = "returned" /\ Len(log') = Len(log) + 1)]_vars
\* process_block has started on the second block, the first one has failed
C17_Witness ==
    /\ pc = "fetch_rows"
    /\ log = <<"error">>

\* C18: run hands a block it takes from the channel to process_block if and
\* only if the block has columns and its lookup index has an entry for the
\* application; a block that is skipped is logged as skipped, without a call
\* to a source, the decoder or the store, and the store is left as it is.
C18_ProcessIffRelevant ==
    /\ [](pc = "recv" /\ block_receive > 0 =>
             \A b \in Blocks :
                 (ENABLED (Receive /\ block' = b /\ pc' = "fetch_rows"))
                     <=> (b.cols # 0 /\ b.range.present))
    /\ [][block_receive' # block_receive =>
             IF pc' = "fetch_rows"
             THEN /\ block'.cols # 0 /\ block'.range.present
                  /\ log' = log
             ELSE /\ pc' = "recv" /\ block' = NoBlock
                  /\ log' = Append(log, "skipped")
                  /\ calls' = NoCalls
                  /\ db' = db
                  /\ pb' = NoPb /\ rr' = NoRr]_vars
\* a block was skipped after a block was stored
C18_Witness ==
    /\ Len(log) > 1 /\ log[Len(log)] = "skipped"
    /\ db # {}
    /\ pc = "recv"

\* C19: for any reconstructed column map, lines 161-177 turn every position
\* (r, c) left unfetched by the first round into the data cell at (r, c)
\* holding chunk r div EXTENSION_FACTOR of column c, and the cells the call
\* goes on with are these and the fetched ones; if for a position the column
\* is not in the map or has no such chunk, process_block returns "Data cell
\* not found": no rows are returned, nothing is decoded or stored.
C19_DataCells ==
    [][pc = "cells" =>
         LET found(p) == /\ p.col \in DOMAIN rr.reconstructed
                         /\ p.row \div EXTENSION_FACTOR < Len(rr.reconstructed[p.col])
             made(p) == [position |-> p,
                         data |-> rr.reconstructed[p.col][(p.row \div EXTENSION_FACTOR) + 1]]
         IN  IF \A i \in DOMAIN rr.unfetched : found(rr.unfetched[i])
             THEN /\ pc' = "assemble"
                  /\ result' = Running
                  /\ Len(rr'.data_cells) = Len(rr.fetched) + Len(rr.unfetched)
                  /\ \A i \in DOMAIN rr.unfetched :
                        Contains(rr'.data_cells, made(rr.unfetched[i]))
                  /\ \A i \in DOMAIN rr.fetched : Contains(rr'.data_cells, rr.fetched[i])
                  /\ calls'.data_cell = Len(rr.unfetched)
             ELSE /\ pc' = "returned"
                  /\ result' = Err("Data cell not found")
                  /\ pb' = NoPb /\ rr' = NoRr
                  /\ calls'.decode = 0 /\ calls'.store = 0
                  /\ db' = db]_vars
\* the lookup has failed for a position after it has made the cell of another
C19_Witness ==
    /\ pc = "returned"
    /\ result = Err("Data cell not found")
    /\ calls.data_cell > 1

\* C20: the rows reconstruct_rows_from_dht assembles do not depend on the
\* order of the cells: the merged cells taken in any order and sorted give the
\* same rows; the result has one pair for every missing row, in the order of
\* the missing rows, and the chunk at offset c * CHUNK_SIZE of a row is the
\* chunk of the row's cell at column c.
C20_OrderIndependent ==
    /\ pc = "assemble" =>
          \A f \in Permutations(DOMAIN rr.data_cells) :
              assemble_rows(SortCells([i \in DOMAIN rr.data_cells |-> rr.data_cells[f[i]]]),
                            pb.missing_rows, block.cols)
                  = assemble_rows(rr.data_cells, pb.missing_rows, block.cols)
    /\ pc = "splice" =>
          /\ Len(pb.recon.val) = Len(pb.missing_rows)
          /\ \A k \in DOMAIN pb.recon.val :
                /\ pb.recon.val[k][1] = pb.missing_rows[k]
                /\ Len(pb.recon.val[k][2]) = block.cols
                /\ \A c \in 1 .. block.cols :
                      /\ pb.recon.val[k][2][c].row = pb.missing_rows[k]
                      /\ pb.recon.val[k][2][c].col = c - 1
\* the cells were merged out of order: a fetched cell comes after the
\* position of a cell made from a reconstructed column
C20_Witness ==
    /\ pc = "assemble"
    /\ \E i \in DOMAIN rr.fetched, j \in DOMAIN rr.unfetched :
          PosLess(rr.unfetched[j], rr.fetched[i].position)

\* Every state in which the first block of the channel stands at line 179 is
\* a state the row assembly is checked from.
AssembleStatesCover ==
    (pc = "assemble" /\ log = <<>> /\ block_receive = MaxBlocks - 1) => InitAssemble

\* Every state in which the first block of the channel stands at line 161 is
\* a state the making of the data cells is checked from.
CellsStatesCover ==
    (pc = "cells" /\ log = <<>> /\ block_receive = MaxBlocks - 1) => InitCells

====
